---- MODULE Spec2Model ----
(***************************************************************************)
(* State-machine model of src/src/main.rs: a process that maps one memfd   *)
(* twice (a plain "shadow" mapping and a userfaultfd-registered "guarded"  *)
(* mapping), spawns a monitor thread running handle_uffd_events, and has   *)
(* consumer code write through the shadow mapping and read through the     *)
(* guarded one.                                                            *)
(*                                                                         *)
(* Addresses are page indexes relative to the guarded base (the kernel     *)
(* reports page-aligned fault addresses); every page carries the first     *)
(* ReadSize bytes of its content.   The calls the program makes into the   *)
(* kernel (mmap, poll, read, UFFDIO_ZEROPAGE, UFFDIO_CONTINUE) are modelled *)
(* by what Linux does for a shared shmem mapping; the kernel routine each  *)
(* definition follows is named in its comment.                             *)
(***************************************************************************)
EXTENDS Integers, Sequences, FiniteSets, TLC

\* ---------------------------------------------------------------- bounds
NumThreads == 2      \* consumer threads; thread 1 is main()
MaxOps == 3          \* operations of the harness scenario: shadow writes,
                     \* guarded reads and third-party events, all together

\* ------------------------------------------------------ program constants
mem_size == 4        \* main.rs:18, 4096 * 4 bytes, counted in pages
ReadSize == 3        \* main.rs:59, read_from_pointer(vm_addr, 3); these are
                     \* the bytes of every page whose content is tracked

Pages == 0 .. (mem_size - 1)
Threads == 1 .. NumThreads
MainThread == 1
Files == 1 .. 2      \* main.rs:19 and :100, one memfd per create_uffd_mapping

Zeros == [i \in 1 .. ReadSize |-> 0]
\* Data is kept as the tracked bytes of each page it covers, in page order.
ExerciserData == << <<1, 2, 3>> >>   \* main.rs:56, &[1, 2, 3]
RegionData == [c \in 1 .. mem_size |-> [i \in 1 .. ReadSize |-> 7]]
DataSet == {ExerciserData, RegionData}

\* main.rs:25-33
RequiredFeatures ==
    {"EVENT_REMOVE", "EVENT_REMAP", "EVENT_FORK", "EVENT_UNMAP",
     "MISSING_SHMEM", "MINOR_SHMEM", "PAGEFAULT_FLAG_WP"}
RegisterModes_NoMissing == {"MODE_MINOR", "WRITE_PROTECT"}
RegisterModes_NoMinor == {"MISSING", "WRITE_PROTECT"}

\* main.rs:40
RegisterModes == {"MISSING", "MODE_MINOR", "WRITE_PROTECT"}

\* What the running kernel supports: everything, or one feature or one
\* register mode short.
KernelConfigs ==
    { [features |-> RequiredFeatures, modes |-> RegisterModes],
      [features |-> RequiredFeatures \ {"MINOR_SHMEM"}, modes |-> RegisterModes],
      [features |-> RequiredFeatures, modes |-> RegisterModes \ {"WRITE_PROTECT"}] }

VARIABLES
    scenario,    \* "exerciser": main() as written; "harness": general consumers
    kern,        \* the running kernel's capabilities
    procState,   \* "running" | "exited" (main returned) | "panicked" (main panicked)
    nfiles,      \* memfds created so far
    maps,        \* file behind each mapping: mem_addr, vm_addr, mon_mem_addr (0: none)
    uffd,        \* "none" | "created" | "registered"
    store,       \* store[f][p]: tracked bytes of page p of file f
    cache,       \* cache[f]: pages of file f that exist in the page cache
    pte,         \* pages present in the guarded mapping
    queue,       \* events pending on the userfaultfd, in delivery order
    thr,         \* per thread: pc, page of the operation, data, position of
                 \* the copy (chunk c, byte i), whether the current read
                 \* faulted, writes and reads begun
    rd,          \* per thread: the last completed guarded read
    mon_pc,      \* "Idle" | "Starting" | "Waiting" | "Reading" | "Dispatching"
                 \* | "Retrying" | "Terminated"
    polled,      \* revents the kernel returned for the monitor's last poll
    event,       \* the event the monitor read last
    lastCall,    \* the monitor's last resolution ioctl and its result
    fatal,       \* panic message of the monitor thread ("" while alive)
    written,     \* pages written through the shadow mapping
    staged,      \* staged[p]: data of the last completed shadow write to p
    resolvedBy,  \* resolvedBy[p]: what made page p present
    nops         \* operations begun so far in the harness scenario

vars == <<scenario, kern, procState, nfiles, maps, uffd, store, cache, pte,
          queue, thr, rd, mon_pc, polled, event, lastCall, fatal, written,
          staged, resolvedBy, nops>>

kernelVars == <<store, cache, pte, queue, resolvedBy>>
monVars == <<mon_pc, polled, event, lastCall, fatal>>
ghostVars == <<written, staged>>
setupVars == <<scenario, kern, nfiles, maps, uffd>>

NoEvent == [type |-> "NoEvent", kind |-> "-", page |-> 0, thr |-> 0]
NoCall == [op |-> "none", start |-> 0, len |-> 0, res |-> "-", mapped |-> 0,
           resolved |-> FALSE, retry |-> FALSE, turn |-> 0]
NoRead == [done |-> FALSE, page |-> 0, val |-> <<>>, faulted |-> FALSE,
           torn |-> FALSE, expect |-> <<>>]

StartupPcs == {"create_uffd_mapping", "create_vm_mapping", "uffd_create",
               "register", "spawn"}

Init ==
    /\ scenario \in {"exerciser", "harness"}
    /\ kern \in KernelConfigs
    /\ procState = "running"
    /\ nfiles = 0
    /\ maps = [mem_addr |-> 0, vm_addr |-> 0, mon_mem_addr |-> 0]
    /\ uffd = "none"
    /\ store = [f \in Files |-> [p \in Pages |-> Zeros]]
    /\ cache = [f \in Files |-> {}]
    /\ pte = {}
    /\ queue = <<>>
    /\ thr = [t \in Threads |->
                [pc |-> IF t = MainThread THEN "create_uffd_mapping" ELSE "idle",
                 page |-> 0, data |-> <<>>, c |-> 1, i |-> 1, faulted |-> FALSE,
                 w |-> 0, r |-> 0]]
    /\ rd = [t \in Threads |-> NoRead]
    /\ mon_pc = "Idle"
    /\ polled = {}
    /\ event = NoEvent
    /\ lastCall = NoCall
    /\ fatal = ""
    /\ written = {}
    /\ staged = [p \in Pages |-> <<>>]
    /\ resolvedBy = [p \in Pages |-> "none"]
    /\ nops = 0

\* ------------------------------------------------------------ main(): setup
Running == procState = "running"
Exposed == thr[MainThread].pc \notin StartupPcs

MainGoto(pc) == thr' = [thr EXCEPT ![MainThread].pc = pc]
MainPanic ==
    /\ procState' = "panicked"
    /\ thr' = [thr EXCEPT ![MainThread].pc = "panicked"]

\* create_uffd_mapping, main.rs:64-83: a fresh memfd of mem_size bytes and a
\* shared read-write mapping of it; every step is unwrapped.
create_uffd_mapping(slot) ==
    /\ nfiles' = nfiles + 1
    /\ maps' = [maps EXCEPT ![slot] = nfiles + 1]

\* The file create_vm_mapping maps: the fd of the file main holds (main.rs:20).
VmMappingFile == maps.mem_addr

\* create_vm_mapping, main.rs:85-97.
create_vm_mapping == maps' = [maps EXCEPT !.vm_addr = VmMappingFile]

UffdCreateOk_Ignored == TRUE

\* UffdBuilder ... create(), main.rs:22-35: fails when the kernel lacks a
\* required feature.
UffdCreateOk == RequiredFeatures \subseteq kern.features

\* register_with_mode, main.rs:37-42: fails when the kernel cannot register
\* one of the modes on this mapping.
RegisterOk == RegisterModes \subseteq kern.modes

MainCreateUffdMapping ==
    /\ Running /\ thr[MainThread].pc = "create_uffd_mapping"
    /\ \E ok \in BOOLEAN :
         IF ok
         THEN /\ create_uffd_mapping("mem_addr")
              /\ MainGoto("create_vm_mapping")
              /\ UNCHANGED procState
         ELSE /\ MainPanic
              /\ UNCHANGED <<nfiles, maps>>
    /\ UNCHANGED <<scenario, kern, uffd, kernelVars, rd, monVars, ghostVars, nops>>

MainCreateVmMapping ==
    /\ Running /\ thr[MainThread].pc = "create_vm_mapping"
    /\ \E ok \in BOOLEAN :
         IF ok
         THEN /\ create_vm_mapping
              /\ MainGoto("uffd_create")
              /\ UNCHANGED procState
         ELSE /\ MainPanic
              /\ UNCHANGED maps
    /\ UNCHANGED <<scenario, kern, nfiles, uffd, kernelVars, rd, monVars,
                   ghostVars, nops>>

MainUffdCreate ==
    /\ Running /\ thr[MainThread].pc = "uffd_create"
    /\ IF UffdCreateOk
       THEN /\ uffd' = "created"
            /\ MainGoto("register")
            /\ UNCHANGED procState
       ELSE /\ MainPanic
            /\ UNCHANGED uffd
    /\ UNCHANGED <<scenario, kern, nfiles, maps, kernelVars, rd, monVars,
                   ghostVars, nops>>

MainRegister ==
    /\ Running /\ thr[MainThread].pc = "register"
    /\ IF RegisterOk
       THEN /\ uffd' = "registered"
            /\ MainGoto("spawn")
            /\ UNCHANGED procState
       ELSE /\ MainPanic
            /\ UNCHANGED uffd
    /\ UNCHANGED <<scenario, kern, nfiles, maps, kernelVars, rd, monVars,
                   ghostVars, nops>>

\* std::thread::spawn of handle_uffd_events, main.rs:44-52.
MainSpawn ==
    /\ Running /\ thr[MainThread].pc = "spawn"
    /\ MainGoto("idle")
    /\ mon_pc' = "Starting"
    /\ UNCHANGED <<setupVars, procState, kernelVars, rd, polled, event,
                   lastCall, fatal, ghostVars, nops>>

\* ----------------------------------------------------------------- kernel
ShadowFile == maps.mem_addr
GuardedFile == maps.vm_addr

\* How the kernel answers a touch of a not-present page of the guarded
\* mapping (shmem_fault / handle_userfault): a page that exists in the page
\* cache raises a minor fault when MODE_MINOR is registered, a page that does
\* not raises a missing fault when MISSING is registered, and otherwise the
\* kernel installs the page itself.  The modes are those of main.rs:40.
FaultKindOf(p) ==
    IF uffd # "registered" THEN "none"
    ELSE IF p \in cache[GuardedFile]
         THEN (IF "MODE_MINOR" \in RegisterModes THEN "Minor" ELSE "none")
         ELSE (IF "MISSING" \in RegisterModes THEN "Missing" ELSE "none")

PagefaultEvent(k, p, t) == [type |-> "Pagefault", kind |-> k, page |-> p, thr |-> t]

\* read_from_pointer, main.rs:148-154: size bytes from the start of page p of
\* the guarded mapping.
read_from_pointer(p, size) == SubSeq(store[GuardedFile][p], 1, size)

write_to_pointer_FirstByte(p, data, c, i) ==
    store' = [store EXCEPT ![ShadowFile][p + c - 1][i] = data[c][1]]

\* write_to_pointer, main.rs:142-146, one byte of the copy: byte i of chunk
\* c of data goes to byte i of page p + c - 1 of the shadow mapping.
write_to_pointer(p, data, c, i) ==
    store' = [store EXCEPT ![ShadowFile][p + c - 1][i] = data[c][i]]

\* A non-cooperative event (remove, remap, fork) that the monitor has not read
\* yet keeps mmap_changing set, and every mfill ioctl fails with EAGAIN.
MmapChanging ==
    \E i \in 1 .. Len(queue) : queue[i].type \in {"Remove", "Remap", "Fork"}

\* Whether UFFDIO_ZEROPAGE / UFFDIO_CONTINUE can fill page p, and the errno
\* when it cannot (shmem_mfill_atomic_pte, mfill_atomic_pte_continue,
\* mfill_atomic_install_pte).
PageErr(op, p) ==
    IF op = "continue"
    THEN (IF p \notin cache[GuardedFile] THEN "EFAULT"
          ELSE IF p \in pte THEN "EEXIST" ELSE "Ok")
    ELSE (IF p \in cache[GuardedFile] \/ p \in pte THEN "EEXIST" ELSE "Ok")

\* Pages filled before the first page that fails, from page p up to end.
RECURSIVE LeadOk(_, _, _)
LeadOk(op, p, end) ==
    IF p >= end \/ PageErr(op, p) # "Ok" THEN 0
    ELSE 1 + LeadOk(op, p + 1, end)

\* The ioctl on [start, start+len): its result and the pages it mapped
\* (mfill_atomic and userfaultfd_zeropage / userfaultfd_continue).  A range
\* that leaves the registered mapping is ENOENT; a pending non-cooperative
\* event is EAGAIN (checked first); otherwise pages are filled in order up to the first
\* failure, and a partly filled range is EAGAIN.
MFill(op, start, len) ==
    IF MmapChanging
    THEN [res |-> "EAGAIN", mapped |-> 0]
    ELSE IF start < 0 \/ start + len > mem_size
    THEN [res |-> "ENOENT", mapped |-> 0]
    ELSE LET n == LeadOk(op, start, start + len) IN
         IF n = len THEN [res |-> "Ok", mapped |-> n]
         ELSE IF n > 0 THEN [res |-> "EAGAIN", mapped |-> n]
         ELSE [res |-> PageErr(op, start), mapped |-> 0]

Wake_False == FALSE

\* main.rs:124 and :127: the third argument of zeropage and uffd_continue,
\* wake = true.
Wake == TRUE

\* Effect of a resolution ioctl: the mapped pages become present (and, for
\* zeropage, enter the page cache zero-filled); with wake set, pending faults
\* in the mapped range are dropped and their threads woken to retry.  The
\* call is recorded with its arguments, its result, whether its first page was
\* present already, whether it is a repeat made by the loop of main.rs:127,
\* and the parity of the repeats made so far (each repeat is a new call).
Resolve(op, start, len) ==
    LET r == MFill(op, start, len)
        mapped == start .. (start + r.mapped - 1)
        woken == IF Wake THEN mapped ELSE {}
    IN /\ pte' = pte \cup mapped
       /\ cache' = IF op = "zeropage"
                   THEN [cache EXCEPT ![GuardedFile] = @ \cup mapped]
                   ELSE cache
       /\ resolvedBy' = [p \in Pages |->
                           IF p \in mapped THEN op ELSE resolvedBy[p]]
       /\ queue' = SelectSeq(queue,
                      LAMBDA e : ~(e.type = "Pagefault" /\ e.page \in woken))
       /\ thr' = [t \in Threads |->
                    IF thr[t].pc = "blocked" /\ thr[t].page \in woken
                    THEN [thr[t] EXCEPT !.pc = "reading"]
                    ELSE thr[t]]
       /\ lastCall' = [op |-> op, start |-> start, len |-> len, res |-> r.res,
                       mapped |-> r.mapped, resolved |-> start \in pte,
                       retry |-> mon_pc = "Retrying",
                       turn |-> IF mon_pc = "Retrying" THEN 1 - lastCall.turn ELSE 0]
       /\ UNCHANGED store

\* ------------------------------------------------------------- consumers
MayWrite(t, p, d) ==
    /\ t = MainThread
    /\ p + Len(d) <= mem_size
    /\ IF scenario = "exerciser"
       THEN thr[t].w = 0 /\ p = 0 /\ d = ExerciserData
       ELSE nops < MaxOps

MayRead(t, p) ==
    IF scenario = "exerciser"
    THEN t = MainThread /\ thr[t].w = 1 /\ thr[t].r = 0 /\ p = 0
    ELSE nops < MaxOps

\* The page a thread in the middle of a copy has partly written, if any.
Tearing(p) ==
    \E u \in Threads :
        /\ thr[u].pc = "writing"
        /\ thr[u].i > 1
        /\ thr[u].page + thr[u].c - 1 = p

\* main.rs:56 (and any later staging): the copy begins.
ThreadStartWrite(t, p, d) ==
    /\ Running /\ Exposed /\ thr[t].pc = "idle"
    /\ MayWrite(t, p, d)
    /\ thr' = [thr EXCEPT ![t] = [@ EXCEPT !.pc = "writing", !.page = p,
                                  !.data = d, !.c = 1, !.i = 1, !.w = @ + 1]]
    /\ nops' = IF scenario = "harness" THEN nops + 1 ELSE nops
    /\ UNCHANGED <<setupVars, procState, kernelVars, rd, monVars, ghostVars>>

\* One byte of the copy; the shadow mapping is not registered, so the first
\* store to a page allocates it in the page cache without any fault event.
ThreadWriteStep(t) ==
    /\ Running /\ thr[t].pc = "writing"
    /\ LET p == thr[t].page
           d == thr[t].data
           c == thr[t].c
           i == thr[t].i
           q == p + c - 1
           endChunk == i = Len(d[c])
           last == endChunk /\ c = Len(d)
       IN /\ write_to_pointer(p, d, c, i)
          /\ cache' = [cache EXCEPT ![ShadowFile] = @ \cup {q}]
          /\ written' = written \cup {q}
          /\ thr' = [thr EXCEPT ![t] =
                       [@ EXCEPT !.pc = IF last THEN "idle" ELSE "writing",
                                 !.c = IF endChunk /\ ~last THEN c + 1 ELSE c,
                                 !.i = IF endChunk THEN 1 ELSE i + 1]]
          /\ staged' = IF endChunk THEN [staged EXCEPT ![q] = d[c]] ELSE staged
    /\ UNCHANGED <<setupVars, procState, pte, queue, resolvedBy, rd, monVars, nops>>

ThreadStartRead_Early(t, p) ==
    /\ Running /\ Exposed /\ thr[t].pc \in {"idle", "writing"}
    /\ IF scenario = "exerciser"
       THEN t = MainThread /\ thr[t].w = 1 /\ thr[t].r = 0 /\ p = 0
       ELSE nops < MaxOps
    /\ thr' = [thr EXCEPT ![t] = [@ EXCEPT !.pc = "reading", !.page = p,
                                           !.faulted = FALSE, !.r = @ + 1]]
    /\ nops' = IF scenario = "harness" THEN nops + 1 ELSE nops
    /\ UNCHANGED <<setupVars, procState, kernelVars, rd, monVars, ghostVars>>

\* main.rs:59: a read of the guarded mapping begins, after the write of
\* main.rs:56 has returned.
ThreadStartRead(t, p) ==
    /\ Running /\ Exposed /\ thr[t].pc = "idle"
    /\ MayRead(t, p)
    /\ thr' = [thr EXCEPT ![t] = [@ EXCEPT !.pc = "reading", !.page = p,
                                           !.faulted = FALSE, !.r = @ + 1]]
    /\ nops' = IF scenario = "harness" THEN nops + 1 ELSE nops
    /\ UNCHANGED <<setupVars, procState, kernelVars, rd, monVars, ghostVars>>

\* The load itself: it completes when the page is present, and otherwise the
\* kernel suspends the thread and queues a pagefault event (or, for a fault
\* class that is not registered, installs the page itself).
ThreadTouch(t) ==
    /\ Running /\ thr[t].pc = "reading"
    /\ LET p == thr[t].page
           k == FaultKindOf(p)
       IN IF p \in pte
          THEN /\ rd' = [rd EXCEPT ![t] =
                           [done |-> TRUE, page |-> p,
                            val |-> read_from_pointer(p, ReadSize),
                            faulted |-> thr[t].faulted,
                            torn |-> Tearing(p),
                            expect |-> staged[p]]]
               /\ thr' = [thr EXCEPT ![t].pc = "idle"]
               /\ UNCHANGED <<kernelVars>>
          ELSE IF k = "none"
          THEN /\ pte' = pte \cup {p}
               /\ cache' = [cache EXCEPT ![GuardedFile] = @ \cup {p}]
               /\ resolvedBy' = [resolvedBy EXCEPT ![p] = "kernel"]
               /\ UNCHANGED <<store, queue, thr, rd>>
          ELSE /\ queue' = Append(queue, PagefaultEvent(k, p, t))
               /\ thr' = [thr EXCEPT ![t] = [@ EXCEPT !.pc = "blocked",
                                                      !.faulted = TRUE]]
               /\ UNCHANGED <<store, cache, pte, resolvedBy, rd>>
    /\ UNCHANGED <<setupVars, procState, monVars, ghostVars, nops>>

\* main.rs:61-62: after its read "Done" is printed and main returns, which
\* ends the process.
MainDone ==
    /\ Running /\ Exposed /\ thr[MainThread].pc = "idle"
    /\ thr[MainThread].r >= 1
    /\ thr' = [thr EXCEPT ![MainThread].pc = "done"]
    /\ procState' = "exited"
    /\ UNCHANGED <<setupVars, kernelVars, rd, monVars, ghostVars, nops>>

\* A third party's madvise, mremap, fork or munmap on the registered range, or
\* a touch of a write-protected page, queues its event on the userfaultfd.
EnvEvents ==
    {[type |-> ty, kind |-> "-", page |-> 0, thr |-> 0] :
        ty \in {"Remove", "Remap", "Fork", "Unmap"}}
    \cup {PagefaultEvent("WriteProtect", 0, 0)}

EnvEvent(e) ==
    /\ Running /\ scenario = "harness" /\ uffd = "registered"
    /\ nops < MaxOps
    /\ queue' = Append(queue, e)
    /\ nops' = nops + 1
    /\ UNCHANGED <<setupVars, procState, store, cache, pte, resolvedBy, thr, rd,
                   monVars, ghostVars>>

\* ------------------------------------------------- handle_uffd_events
\* main.rs:24, non_blocking(false): the descriptor blocks in read.
NonBlocking == FALSE

\* A panic of the spawned thread unwinds that thread only; the process and
\* its other threads go on.
MonPanic(msg) ==
    /\ mon_pc' = "Terminated"
    /\ fatal' = msg

\* main.rs:100: the monitor creates a memfd and a mapping of its own.
MonSetup ==
    /\ Running /\ mon_pc = "Starting"
    /\ \E ok \in BOOLEAN :
         IF ok
         THEN /\ create_uffd_mapping("mon_mem_addr")
              /\ mon_pc' = "Waiting"
              /\ UNCHANGED fatal
         ELSE /\ MonPanic("create_uffd_mapping")
              /\ UNCHANGED <<nfiles, maps>>
    /\ UNCHANGED <<scenario, kern, uffd, procState, kernelVars, thr, rd,
                   polled, event, lastCall, ghostVars, nops>>

\* What poll() can return: an error, or the kernel's revents.  userfaultfd_poll
\* reports POLLERR for every poll of a blocking descriptor, and POLLIN for a
\* non-blocking one once a fault is pending.
PollOutcomes ==
    {"Err"} \cup (IF ~NonBlocking THEN {"POLLERR"}
                  ELSE IF queue # <<>> THEN {"POLLIN"} ELSE {})

\* main.rs:102-108: pollfd is an immutable binding and poll() is handed the
\* temporary array [pollfd], a copy; pollfd.revents() reads the original,
\* which the kernel never wrote.
ObservedRevents(k) == {}

\* main.rs:107-112.
MonPoll ==
    /\ Running /\ mon_pc = "Waiting"
    /\ \E k \in PollOutcomes :
         IF k = "Err"
         THEN MonPanic("poll") /\ UNCHANGED polled
         ELSE /\ polled' = {k}
              /\ IF "POLLERR" \in ObservedRevents({k})
                 THEN MonPanic("poll returned POLLERR")
                 ELSE mon_pc' = "Reading" /\ UNCHANGED fatal
    /\ UNCHANGED <<setupVars, procState, kernelVars, thr, rd, event, lastCall,
                   ghostVars, nops>>

\* What read_event() can return: an error, the head of the queue, or None
\* (EAGAIN) from a non-blocking descriptor with nothing pending.
ReadOutcomes ==
    {"Err"} \cup (IF queue # <<>> THEN {"Some"}
                  ELSE IF NonBlocking THEN {"None"} ELSE {})

MonRead_Peek ==
    /\ Running /\ mon_pc = "Reading" /\ queue # <<>>
    /\ event' = Head(queue)
    /\ mon_pc' = "Dispatching"
    /\ UNCHANGED <<setupVars, procState, kernelVars, thr, rd, polled, lastCall,
                   fatal, ghostVars, nops>>

\* main.rs:115.
MonRead ==
    /\ Running /\ mon_pc = "Reading"
    /\ \E o \in ReadOutcomes :
         CASE o = "Err" ->
                /\ MonPanic("Failed to read uffd_msg")
                /\ UNCHANGED <<event, queue>>
           [] o = "None" ->
                /\ event' = [NoEvent EXCEPT !.type = "None"]
                /\ mon_pc' = "Dispatching"
                /\ UNCHANGED <<fatal, queue>>
           [] o = "Some" ->
                /\ event' = Head(queue)
                /\ queue' = Tail(queue)
                /\ mon_pc' = "Dispatching"
                /\ UNCHANGED fatal
    /\ UNCHANGED <<setupVars, procState, store, cache, pte, resolvedBy, thr, rd,
                   polled, lastCall, ghostVars, nops>>

\* main.rs:124: uffd.zeropage(addr, mem_size, true).unwrap()
ZeropageArgs(ev) == [start |-> ev.page, len |-> mem_size]
AfterZeropage_Break(res) == "Terminated"
AfterZeropage(res) == IF res = "Ok" THEN "Waiting" ELSE "Terminated"

\* main.rs:127: while let Err(err) = uffd.uffd_continue(addr, mem_size, true)
ContinueArgs(ev) == [start |-> ev.page, len |-> mem_size]
AfterContinue_NoRetry(res) == "Waiting"
AfterContinue(res) == IF res = "Ok" THEN "Waiting" ELSE "Retrying"

\* main.rs:122-124.
MonMissing ==
    /\ Running /\ mon_pc = "Dispatching"
    /\ event.type = "Pagefault" /\ event.kind = "Missing"
    /\ LET a == ZeropageArgs(event) IN
         /\ Resolve("zeropage", a.start, a.len)
         /\ mon_pc' = AfterZeropage(lastCall'.res)
         /\ fatal' = IF mon_pc' = "Terminated" THEN "zeropage" ELSE fatal
    /\ UNCHANGED <<setupVars, procState, rd, polled, event, ghostVars, nops>>

\* main.rs:125-130, the first call of the loop.
MonMinor ==
    /\ Running /\ mon_pc = "Dispatching"
    /\ event.type = "Pagefault" /\ event.kind = "Minor"
    /\ LET a == ContinueArgs(event) IN
         /\ Resolve("continue", a.start, a.len)
         /\ mon_pc' = AfterContinue(lastCall'.res)
    /\ UNCHANGED <<setupVars, procState, rd, polled, event, fatal, ghostVars, nops>>

\* main.rs:127-129, every later call of the loop.
MonRetry ==
    /\ Running /\ mon_pc = "Retrying"
    /\ LET a == ContinueArgs(event) IN
         /\ Resolve("continue", a.start, a.len)
         /\ mon_pc' = AfterContinue(lastCall'.res)
    /\ UNCHANGED <<setupVars, procState, rd, polled, event, fatal, ghostVars, nops>>

\* main.rs:118-131: a pagefault of any other kind matches the Pagefault arm
\* and neither branch of the if.
MonOtherFault ==
    /\ Running /\ mon_pc = "Dispatching"
    /\ event.type = "Pagefault" /\ event.kind \notin {"Missing", "Minor"}
    /\ mon_pc' = "Waiting"
    /\ UNCHANGED <<setupVars, procState, kernelVars, thr, rd, polled, event,
                   lastCall, fatal, ghostVars, nops>>

MonRemove_Zeropage ==
    /\ Running /\ mon_pc = "Dispatching"
    /\ event.type = "Remove"
    /\ Resolve("zeropage", 0, mem_size)
    /\ mon_pc' = "Waiting"
    /\ UNCHANGED <<setupVars, procState, rd, polled, event, fatal, ghostVars, nops>>

\* main.rs:132-134.
MonRemove ==
    /\ Running /\ mon_pc = "Dispatching"
    /\ event.type = "Remove"
    /\ mon_pc' = "Waiting"
    /\ UNCHANGED <<setupVars, procState, kernelVars, thr, rd, polled, event,
                   lastCall, fatal, ghostVars, nops>>

\* main.rs:135-137.
MonUnexpected ==
    /\ Running /\ mon_pc = "Dispatching"
    /\ event.type \notin {"Pagefault", "Remove"}
    /\ MonPanic("Unexpected event")
    /\ UNCHANGED <<setupVars, procState, kernelVars, thr, rd, polled, event,
                   lastCall, ghostVars, nops>>

\* ------------------------------------------------------------ specification
Next ==
    \/ MainCreateUffdMapping
    \/ MainCreateVmMapping
    \/ MainUffdCreate
    \/ MainRegister
    \/ MainSpawn
    \/ \E t \in Threads, p \in Pages, d \in DataSet : ThreadStartWrite(t, p, d)
    \/ \E t \in Threads : ThreadWriteStep(t)
    \/ \E t \in Threads, p \in Pages : ThreadStartRead(t, p)
    \/ \E t \in Threads : ThreadTouch(t)
    \/ MainDone
    \/ \E e \in EnvEvents : EnvEvent(e)
    \/ MonSetup
    \/ MonPoll
    \/ MonRead
    \/ MonMissing
    \/ MonMinor
    \/ MonRetry
    \/ MonOtherFault
    \/ MonRemove
    \/ MonUnexpected

Spec == Init /\ [][Next]_vars

\* The scheduler runs every runnable thread again and again: the monitor's
\* next step and each consumer's pending store or load are taken eventually,
\* and main returns once it has nothing left to do.  What a consumer chooses
\* to begin, and what third parties do, is not forced.
MonitorNext ==
    \/ MonSetup \/ MonPoll \/ MonRead \/ MonMissing \/ MonMinor \/ MonRetry
    \/ MonOtherFault \/ MonRemove \/ MonUnexpected

FairSpec ==
    /\ Spec
    /\ WF_vars(MonitorNext)
    /\ WF_vars(MainDone)
    /\ \A t \in Threads : WF_vars(ThreadWriteStep(t)) /\ WF_vars(ThreadTouch(t))

\* ------------------------------------------------------------ vocabulary
\* The two classes of resolution error the design distinguishes.
IsBusy(res) == res = "EAGAIN"
IsInvalid(res) == res \in {"EEXIST", "ENOENT", "EFAULT"}
LoopPcs == {"Waiting", "Reading", "Dispatching", "Retrying"}
ZeroBytes == [i \in 1 .. ReadSize |-> 0]
Blocked(t) == thr[t].pc = "blocked"
TouchedGuarded == \E t \in Threads : thr[t].r > 0
MonitorStep == mon_pc' # mon_pc \/ lastCall' # lastCall

C2_RoundTrip ==
    \A t \in Threads :
        (/\ rd[t].done
         /\ resolvedBy[rd[t].page] = "continue"
         /\ ~rd[t].torn
         /\ rd[t].expect # <<>>)
        => rd[t].val = SubSeq(rd[t].expect, 1, ReadSize)

C2_Witness ==
    \E t \in Threads :
        /\ rd[t].done /\ rd[t].faulted /\ ~rd[t].torn
        /\ resolvedBy[rd[t].page] = "continue"
        /\ lastCall.op = "continue" /\ lastCall.res = "Ok"
        /\ rd[t].val = <<7, 7, 7>>

\* C3: in the exerciser run, once main has reached "Done" its read has
\* faulted as a Minor fault, returned [1,2,3], and the monitor's continue over
\* (0, mem_size) has succeeded.
C3_ExerciserContinueSucceeds ==
    (scenario = "exerciser" /\ thr[MainThread].pc = "done") =>
        /\ rd[MainThread].faulted
        /\ event = PagefaultEvent("Minor", 0, MainThread)
        /\ rd[MainThread].val = <<1, 2, 3>>
        /\ lastCall.op = "continue" /\ lastCall.start = 0
        /\ lastCall.len = mem_size
        /\ lastCall.res = "Ok"

\* C4: after a continue call has failed with a permanent (Invalid) error the
\* monitor is Terminated: it is not in the retry loop.
C4_InvalidIsFatal ==
    (lastCall.op = "continue" /\ IsInvalid(lastCall.res)) => mon_pc = "Terminated"

\* C5: every step of the monitor's loop stays in the loop or terminates the
\* monitor; a step that handles an event successfully (zeropage or continue
\* returned Ok, or the event was Remove) goes to Waiting; and a step that
\* terminates the monitor is a failed poll, a failed read, the dispatch of an
\* unexpected event, or a failed resolution.
C5_Step ==
    (mon_pc \in LoopPcs /\ mon_pc' # mon_pc) =>
        /\ mon_pc' \in LoopPcs \cup {"Terminated"}
        /\ (mon_pc \in {"Dispatching", "Retrying"} /\ event.type = "Pagefault"
            /\ event.kind \in {"Missing", "Minor"} /\ lastCall'.res = "Ok")
           => mon_pc' = "Waiting"
        /\ (mon_pc = "Dispatching" /\ event.type = "Remove") => mon_pc' = "Waiting"
        /\ mon_pc' = "Terminated" =>
             \/ mon_pc = "Waiting" /\ fatal' \in {"poll", "poll returned POLLERR"}
             \/ mon_pc = "Reading" /\ fatal' = "Failed to read uffd_msg"
             \/ mon_pc = "Dispatching" /\ event.type \notin {"Pagefault", "Remove"}
             \/ /\ mon_pc \in {"Dispatching", "Retrying"}
                /\ event.type = "Pagefault"
                /\ lastCall'.op \in {"zeropage", "continue"}
                /\ lastCall'.res # "Ok"

C5_LoopLeavesOnlyOnFatal == [][C5_Step]_vars

C5_Witness ==
    /\ mon_pc = "Waiting"
    /\ event.type = "Pagefault" /\ event.kind = "Missing"
    /\ lastCall.op = "zeropage" /\ lastCall.res = "Ok"

\* C6: there is no state in which the monitor has terminated on a fatal
\* condition met while dispatching (a failed resolution, an unexpected event)
\* and the process is still running with a consumer blocked on the guarded
\* region.
C6_FatalAbortsProcess ==
    \A t \in Threads :
        ~(/\ mon_pc = "Terminated"
          /\ fatal \in {"zeropage", "Unexpected event"}
          /\ procState = "running"
          /\ Blocked(t))

\* C7 as stated: no thread stays blocked on a page that is present, and a
\* resolution attempt on a range whose first page is already present yields an
\* Invalid error, leaves the monitor alive and blocks no thread.
C7_SecondAttempt_Step(errors) ==
    (MonitorStep /\ lastCall'.resolved) =>
        /\ lastCall'.op = "continue"
        /\ lastCall'.res \in errors
        /\ mon_pc' # "Terminated"
        /\ \A t \in Threads : Blocked(t)' => Blocked(t)

C7_NoneLeftBlocked == \A t \in Threads : Blocked(t) => thr[t].page \notin pte

IsPlanned(ev) ==
    \/ ev.type = "Pagefault" /\ ev.kind \in {"Missing", "Minor"}
    \/ ev.type = "Remove"
    \/ ev.type = "NoEvent"

C8_OtherEventsFatal ==
    ~IsPlanned(event) => mon_pc \in {"Dispatching", "Terminated"}

\* C9: the step that handles a Remove event takes the monitor to Waiting,
\* issues no resolution ioctl and leaves pages, page cache, pending events and
\* threads as they were.
C9_Step ==
    (mon_pc = "Dispatching" /\ event.type = "Remove" /\ mon_pc' # mon_pc) =>
        /\ mon_pc' = "Waiting"
        /\ UNCHANGED <<store, cache, pte, resolvedBy, queue, thr, lastCall>>

C9_RemoveIsBookkeeping == [][C9_Step]_vars

C9_Witness == mon_pc = "Waiting" /\ event.type = "Remove"

\* C10: a guarded read is begun only once the userfaultfd exists and the
\* region is registered with it; and when the kernel lacks a required feature
\* or register mode, main panics during setup, nothing of the process runs on
\* afterwards, the monitor was never spawned and no thread has touched the
\* guarded mapping.
Unsupported ==
    ~(RequiredFeatures \subseteq kern.features /\ RegisterModes \subseteq kern.modes)

C10_NoAccessBeforeRegistration ==
    /\ TouchedGuarded => uffd = "registered"
    /\ Unsupported =>
         /\ ~TouchedGuarded
         /\ mon_pc = "Idle"
         /\ uffd # "registered"
         /\ thr[MainThread].pc \in StartupPcs \cup {"panicked"}
    /\ thr[MainThread].pc = "panicked" =>
         /\ procState = "panicked"
         /\ ~TouchedGuarded
         /\ ~ENABLED Next

C10_Witness ==
    /\ Unsupported
    /\ procState = "panicked"
    /\ thr[MainThread].pc = "panicked"
    /\ maps.vm_addr # 0

\* C11: every zero-fill the monitor issues covers exactly the registered
\* range: it starts at the region base, is mem_size long, contains the
\* faulting address and ends inside the region.
C11_ZeroFillCoversRegion ==
    lastCall.op = "zeropage" =>
        /\ lastCall.start = 0
        /\ lastCall.len = mem_size
        /\ event.page \in lastCall.start .. (lastCall.start + lastCall.len - 1)
        /\ lastCall.start + lastCall.len <= mem_size

\* C12: a step the monitor takes in its retry loop after a continue that
\* failed with Busy is the same continue again (same start, same length), for
\* the same event, with nothing read from the channel; it never terminates
\* the monitor, and it leads to Waiting exactly when the call succeeded and
\* back into the retry loop otherwise.
C12_Step ==
    (mon_pc = "Retrying" /\ IsBusy(lastCall.res) /\ MonitorStep) =>
        /\ lastCall'.op = "continue"
        /\ lastCall'.start = lastCall.start
        /\ lastCall'.len = lastCall.len
        /\ event' = event
        /\ fatal' = fatal
        /\ mon_pc' \in {"Retrying", "Waiting"}
        /\ mon_pc' = "Waiting" <=> lastCall'.res = "Ok"

C12_BusyIsRetried ==
    /\ [](IsBusy(lastCall.res) /\ lastCall.op = "continue" => mon_pc = "Retrying")
    /\ [][C12_Step]_vars

C12_Witness ==
    /\ mon_pc = "Retrying"
    /\ lastCall.op = "continue" /\ lastCall.retry
    /\ IsBusy(lastCall.res)
    /\ event.kind = "Minor"

\* C13: whenever the monitor has read a Minor pagefault and is about to
\* dispatch it, it is eventually back in Waiting (unless the process has
\* ended or a third party's event is waiting unread on the channel).
C13_MinorDispatchTerminates ==
    (mon_pc = "Dispatching" /\ event.type = "Pagefault" /\ event.kind = "Minor")
        ~> (mon_pc = "Waiting" \/ procState # "running" \/ MmapChanging)

\* C14: with two consumer threads suspended on first touches of the guarded
\* region at the same time, the monitor has not died dispatching one of the
\* faults.
C14_ConcurrentTouchesAreServed ==
    \A t, u \in Threads :
        (t # u /\ Blocked(t) /\ Blocked(u)) =>
            ~(mon_pc = "Terminated" /\ fatal = "zeropage")

\* C15: once a poll of the channel has reported an error condition (POLLERR in
\* the revents the kernel returned) the monitor is Terminated: it is not about
\* to read an event, dispatching one, or back in its loop.
C15_PollErrorStopsMonitor ==
    "POLLERR" \in polled => mon_pc = "Terminated"

\* C16: the step that reads takes exactly the oldest pending event off the
\* channel and makes it the event being dispatched; no other step changes the
\* event in hand, and outside a read the channel only gains events at its end
\* or loses faults that a resolution woke, the rest keeping their order; a
\* read is begun only from Waiting, and handling an event (retries included)
\* ends in Waiting or in termination, never in another read.
RECURSIVE IsSubSeq(_, _)
IsSubSeq(a, b) ==
    IF a = <<>> THEN TRUE
    ELSE IF b = <<>> THEN FALSE
    ELSE IF Head(a) = Head(b) THEN IsSubSeq(Tail(a), Tail(b))
    ELSE IsSubSeq(a, Tail(b))

IsReadStep == mon_pc = "Reading" /\ mon_pc' = "Dispatching"

C16_Step ==
    /\ IsReadStep =>
          IF queue = <<>>
          THEN event'.type = "None" /\ queue' = queue
          ELSE event' = Head(queue) /\ queue' = Tail(queue)
    /\ ~IsReadStep =>
          /\ event' = event
          /\ \/ queue' = queue
             \/ /\ Len(queue') = Len(queue) + 1
                /\ SubSeq(queue', 1, Len(queue)) = queue
             \/ IsSubSeq(queue', queue)
    /\ (mon_pc' = "Reading" /\ mon_pc # "Reading") => mon_pc = "Waiting"
    /\ mon_pc \in {"Dispatching", "Retrying"} =>
          mon_pc' \in {mon_pc, "Retrying", "Waiting", "Terminated"}

C16_EventsSerialized == [][C16_Step]_vars

C16_Witness ==
    /\ mon_pc = "Retrying" /\ lastCall.retry
    /\ event.type = "Pagefault"
    /\ queue # <<>>
    /\ \A i \in 1 .. Len(queue) : queue[i] # event

\* C17: for the consumer that stages data and then reads it (main.rs:56-59):
\* a continue dispatched for its fault maps only pages whose shadow write has
\* completed (no copy is under way on them and they hold the staged bytes),
\* and every one of its reads of a page that a continue made present returns
\* the completely written bytes, never a partly written page.
Staged(p) ==
    /\ ~Tearing(p)
    /\ staged[p] # <<>>
    /\ store[GuardedFile][p] = staged[p]

C17_Step ==
    (/\ lastCall' # lastCall
     /\ lastCall'.op = "continue"
     /\ lastCall'.mapped > 0
     /\ event.thr = MainThread)
    => \A p \in lastCall'.start .. (lastCall'.start + lastCall'.mapped - 1) :
          Staged(p)

C17_NoTornRead ==
    (/\ rd[MainThread].done
     /\ resolvedBy[rd[MainThread].page] = "continue")
    => /\ ~rd[MainThread].torn
       /\ rd[MainThread].expect # <<>>
       /\ rd[MainThread].val = SubSeq(rd[MainThread].expect, 1, ReadSize)

C18_Step ==
    /\ pte \subseteq pte'
    /\ pte' # pte =>
          /\ mon_pc \in {"Dispatching", "Retrying"}
          /\ lastCall'.op \in {"zeropage", "continue"}
          /\ pte' \ pte = lastCall'.start .. (lastCall'.start + lastCall'.mapped - 1)
    /\ mon_pc = "Terminated" =>
          /\ mon_pc' = "Terminated"
          /\ pte' = pte
          /\ lastCall' = lastCall
          /\ \A t \in Threads :
                /\ Blocked(t) => Blocked(t)'
                /\ (thr[t].pc = "reading" /\ thr'[t].pc # "reading"
                    /\ thr[t].page \notin pte) => Blocked(t)'

C18_ResolvedByMonitor ==
    \A p \in Pages :
        /\ resolvedBy[p] \in {"none", "zeropage", "continue"}
        /\ p \in pte <=> resolvedBy[p] # "none"

ShadowMappings == {"mem_addr", "mon_mem_addr"}

C19_ShadowsShareBackingStore ==
    \A m \in ShadowMappings :
        (maps[m] # 0 /\ maps.vm_addr # 0) => maps[m] = maps.vm_addr

====
